---- MODULE Spec2Model ----
(***************************************************************************)
(* Model of the melt-challenge application: the relational store           *)
(* (Challenge, Participant, Submission, Photo), the lifecycle module       *)
(* (getActiveChallenge, getOrCreateParticipant, canStartChallenge,         *)
(* canEndChallenge), the customer start/end form actions split at their    *)
(* store calls, and the admin challenge actions.                           *)
(*                                                                         *)
(* Time is counted in days.  Every store call of a request is one step, so *)
(* concurrent requests interleave between their store calls.               *)
(***************************************************************************)
EXTENDS Integers, FiniteSets, Sequences, TLC

VARIABLES now, challenges, participants, submissions, photos,
          nextId, req, issued, adminOps, outages, response, lastCall

vars == <<now, challenges, participants, submissions, photos,
          nextId, req, issued, adminOps, outages, response, lastCall>>

store == <<challenges, participants, submissions, photos, nextId>>

(***************************************************************************)
(* Bounds of the model.                                                    *)
(***************************************************************************)
MaxTime == 1
MaxRequests == 3
MaxAdminOps == 2
MaxConcurrent == 2
MaxOutages == 1

(***************************************************************************)
(* Program constants.                                                      *)
(***************************************************************************)
OldShop == "bowmar-nutrition-test.myshopify.com"
NewShop == "bowmarnutrition.myshopify.com"
SHOPIFY_SHOP_DOMAIN == OldShop
MinWeightLbs == 50
MaxWeightLbs == 1000
SetupDays == 30
PhotoCount == 3

Shops == {OldShop, NewShop}
Emails == {"a@x.com"}
Reqs == 1..MaxConcurrent
Dates == 0..MaxTime

NoId == 0
Null == -1
NaN == -2

NOT_STARTED == "NOT_STARTED"
IN_PROGRESS == "IN_PROGRESS"
COMPLETED == "COMPLETED"
Statuses == {NOT_STARTED, IN_PROGRESS, COMPLETED}
Orientations == {"FRONT", "SIDE", "BACK"}

(***************************************************************************)
(* Identity of a shopper.  A customer id is either the commerce            *)
(* platform's id of the customer with that email, or the "email:" fallback.*)
(***************************************************************************)
Gid(email) == <<"gid", email>>
EmailId(email) == <<"email", email>>
CustomerIds == {Gid(e) : e \in Emails} \cup {EmailId(e) : e \in Emails}

(***************************************************************************)
(* Store queries.                                                          *)
(***************************************************************************)
ChallengeById(id) == CHOOSE c \in challenges : c.id = id
ParticipantById(id) == CHOOSE p \in participants : p.id = id
HasChallenge(id) == \E c \in challenges : c.id = id
HasParticipant(id) == \E p \in participants : p.id = id
HasSubmission(id) == \E s \in submissions : s.id = id

SubmissionsOf(pid) == {s \in submissions : s.participantId = pid}
StartSubmissionsOf(pid) == {s \in SubmissionsOf(pid) : s.type = "START"}
EndSubmissionsOf(pid) == {s \in SubmissionsOf(pid) : s.type = "END"}
PhotosOf(sid) == {ph \in photos : ph.submissionId = sid}

\* prisma.participant.findUnique({where: {challengeId_customerId}})
findUniqueMiss(challengeId, customerId) == {}

findUnique(challengeId, customerId) ==
  {p \in participants : p.challengeId = challengeId /\ p.customerId = customerId}

(***************************************************************************)
(* getActiveChallenge: the possible results of the two findFirst queries   *)
(* (ids, or NoId for null).  Rows with equal startDate come back in an     *)
(* order the store does not fix, so the result is a set.                   *)
(***************************************************************************)
Ongoing(shop) ==
  {c \in challenges : c.shop = shop /\ c.isActive
                      /\ c.startDate <= now /\ c.endDate >= now}

Upcoming(shop) ==
  {c \in challenges : c.shop = shop /\ c.isActive /\ c.startDate > now}

FirstByStartDesc(S) == {c \in S : \A d \in S : d.startDate <= c.startDate}
FirstByStartAsc(S) == {c \in S : \A d \in S : d.startDate >= c.startDate}

getActiveChallengeUpcomingFirst(shop) ==
  IF Upcoming(shop) # {}
    THEN {c.id : c \in FirstByStartAsc(Upcoming(shop))}
    ELSE IF Ongoing(shop) # {}
      THEN {c.id : c \in FirstByStartDesc(Ongoing(shop))}
      ELSE {NoId}

getActiveChallenge(shop) ==
  IF Ongoing(shop) # {}
    THEN {c.id : c \in FirstByStartDesc(Ongoing(shop))}
    ELSE IF Upcoming(shop) # {}
      THEN {c.id : c \in FirstByStartAsc(Upcoming(shop))}
      ELSE {NoId}

(***************************************************************************)
(* Eligibility checks, as the set of results the call can return.          *)
(***************************************************************************)
canStartForBothRequired(challengeId, customerId) ==
  IF challengeId = NoId
    THEN [ok |-> FALSE, reason |-> "No active challenge available"]
    ELSE IF findUnique(challengeId, customerId) = {}
      THEN [ok |-> TRUE, reason |-> ""]
      ELSE LET participant == CHOOSE p \in findUnique(challengeId, customerId) : TRUE
           IN IF participant.status # NOT_STARTED
                 /\ StartSubmissionsOf(participant.id) # {}
                THEN [ok |-> FALSE, reason |-> "You have already started this challenge"]
                ELSE [ok |-> TRUE, reason |-> ""]

canStartFor(challengeId, customerId) ==
  IF challengeId = NoId
    THEN [ok |-> FALSE, reason |-> "No active challenge available"]
    ELSE IF findUnique(challengeId, customerId) = {}
      THEN [ok |-> TRUE, reason |-> ""]
      ELSE LET participant == CHOOSE p \in findUnique(challengeId, customerId) : TRUE
           IN IF participant.status # NOT_STARTED
                 \/ StartSubmissionsOf(participant.id) # {}
                THEN [ok |-> FALSE, reason |-> "You have already started this challenge"]
                ELSE [ok |-> TRUE, reason |-> ""]

canStartChallenge(shop, customerId) ==
  {canStartFor(ch, customerId) : ch \in getActiveChallenge(shop)}

canEndForEndFirst(challengeId, customerId) ==
  IF challengeId = NoId
    THEN [ok |-> FALSE, reason |-> "No active challenge available"]
    ELSE IF findUnique(challengeId, customerId) = {}
      THEN [ok |-> FALSE, reason |-> "You must start the challenge first"]
      ELSE LET participant == CHOOSE p \in findUnique(challengeId, customerId) : TRUE
           IN IF EndSubmissionsOf(participant.id) # {}
                THEN [ok |-> FALSE, reason |-> "You have already completed this challenge"]
                ELSE IF StartSubmissionsOf(participant.id) = {}
                  THEN [ok |-> FALSE, reason |-> "You must complete the start form first"]
                  ELSE [ok |-> TRUE, reason |-> ""]

canEndFor(challengeId, customerId) ==
  IF challengeId = NoId
    THEN [ok |-> FALSE, reason |-> "No active challenge available"]
    ELSE IF findUnique(challengeId, customerId) = {}
      THEN [ok |-> FALSE, reason |-> "You must start the challenge first"]
      ELSE LET participant == CHOOSE p \in findUnique(challengeId, customerId) : TRUE
           IN IF StartSubmissionsOf(participant.id) = {}
                THEN [ok |-> FALSE, reason |-> "You must complete the start form first"]
                ELSE IF EndSubmissionsOf(participant.id) # {}
                  THEN [ok |-> FALSE, reason |-> "You have already completed this challenge"]
                  ELSE [ok |-> TRUE, reason |-> ""]

canEndChallenge(shop, customerId) ==
  {canEndFor(ch, customerId) : ch \in getActiveChallenge(shop)}

(***************************************************************************)
(* Form validation.                                                        *)
(***************************************************************************)
validateWeight(weight) ==
  IF weight = NaN THEN FALSE
  ELSE IF weight <= 0 THEN FALSE
  ELSE IF weight < MinWeightLbs THEN FALSE
  ELSE IF weight > MaxWeightLbs THEN FALSE
  ELSE TRUE

validateDateRange(startDate, endDate) == ~(startDate >= endDate)

WeightInputs == {NaN, 0, MinWeightLbs - 1, MinWeightLbs, MaxWeightLbs, MaxWeightLbs + 1}

\* The photo arrays a client can post: a well-formed one, one with repeated
\* and out-of-range orders, one with an orientation outside the enum, one of
\* the wrong length, and something that is not an array (empty here).
PhotoInputs ==
  [good |-> << [order |-> 1, orientation |-> "FRONT"],
               [order |-> 2, orientation |-> "SIDE"],
               [order |-> 3, orientation |-> "BACK"] >>,
   dup |-> << [order |-> 1, orientation |-> "FRONT"],
              [order |-> 1, orientation |-> "FRONT"],
              [order |-> 4, orientation |-> "BACK"] >>,
   badEnum |-> << [order |-> 1, orientation |-> "FRONT"],
                  [order |-> 2, orientation |-> "SIDE"],
                  [order |-> 3, orientation |-> "DIAGONAL"] >>,
   short |-> << [order |-> 1, orientation |-> "FRONT"],
                [order |-> 2, orientation |-> "SIDE"] >>,
   notArray |-> << >>]

PhotoInputNames == DOMAIN PhotoInputs

photosValid(name) == name # "notArray" /\ Len(PhotoInputs[name]) = PhotoCount

\* requireCustomer: no session, or the session of a customer of some shop.
Sessions == {[present |-> FALSE, shop |-> "", customerId |-> << >>]}
            \cup {[present |-> TRUE, shop |-> s, customerId |-> Gid(e)] :
                    s \in Shops, e \in Emails}

\* authenticate.admin + lookupCustomerByEmail: customer found, none found
\* (null), or the admin authentication throws.
Lookups == {"found", "notFound", "error"}
OrdersCountOf(email) == 2
TotalSpentOf(email) == 50

(***************************************************************************)
(* The forms a browser can post.  A form with an invalid field is rejected *)
(* before the session or the lookup is consulted, so such forms are        *)
(* enumerated with one invalid field, no session and no customer found.    *)
(***************************************************************************)
NoSession == [present |-> FALSE, shop |-> "", customerId |-> << >>]

OddFields(f) ==
  (IF f.email = "" THEN 1 ELSE 0) + (IF f.namesGiven THEN 0 ELSE 1)
  + (IF f.weight \in {MinWeightLbs, MaxWeightLbs} THEN 0 ELSE 1)
  + (IF f.photos \in {"short", "notArray"} THEN 1 ELSE 0)

Forms ==
  {f \in [email : Emails \cup {""}, namesGiven : BOOLEAN, weight : WeightInputs,
          photos : PhotoInputNames, session : Sessions, lookup : Lookups] :
     \/ OddFields(f) = 0
     \/ OddFields(f) = 1 /\ f.session = NoSession /\ f.lookup = "notFound"}

\* The end form has no name fields.
EndForms == {f \in Forms : f.namesGiven}

\* The forms of the lifecycle specification: shoppers without a session and
\* unknown to the commerce platform, posting the lowest accepted weight (or
\* an invalid one) and a well-formed photo array (or an invalid one).
LifecycleForms ==
  {f \in Forms : /\ f.session = NoSession
                 /\ f.lookup # "found"
                 /\ f.weight # MaxWeightLbs
                 /\ f.photos \notin {"dup", "badEnum"}}

(***************************************************************************)
(* Requests in flight.                                                     *)
(***************************************************************************)
IdleReq ==
  [pc |-> "idle", kind |-> "none", shop |-> "", customerId |-> << >>,
   email |-> "", firstName |-> "", lastName |-> "", weight |-> 0,
   photos |-> "good", ordersCount |-> Null, totalSpent |-> Null,
   challengeId |-> NoId, participantId |-> NoId, submissionId |-> NoId,
   pending |-> {}, failed |-> FALSE, ts |-> Null]

NoResponse == [kind |-> "none", status |-> 0, text |-> ""]
GenericFailure == "Failed to submit form. Please try again."

\* The request returns a response and ends.
Respond(r, status, text) ==
  /\ req' = [req EXCEPT ![r] = IdleReq]
  /\ response' = [kind |-> req[r].kind, status |-> status, text |-> text]

\* A form posted to an idle worker is answered at once.
Reject(kind, status, text) ==
  /\ response' = [kind |-> kind, status |-> status, text |-> text]
  /\ UNCHANGED <<req, issued>>

\* The request goes on to its next store call.  response holds what the
\* latest step answered, if it answered.
Continue(r, rec) ==
  /\ req' = [req EXCEPT ![r] = rec]
  /\ response' = NoResponse

\* A store write throws, and writes nothing, when the store rejects it (a
\* constraint, a missing row) or when the store cannot be reached.
WriteFails(accepted) ==
  \/ /\ ~accepted
     /\ UNCHANGED outages
  \/ /\ accepted
     /\ outages < MaxOutages
     /\ outages' = outages + 1

FreeSlot(r) ==
  /\ req[r].pc = "idle"
  /\ \A q \in Reqs : q < r => req[q].pc # "idle"

\* Two challenges of the shop the forms fall back to, as two admin creates
\* leave them: the first runs on days 0..1, the second on days 1..2.
SeededChallenges ==
  {[id |-> 1, shop |-> OldShop, startDate |-> 0, endDate |-> 1, isActive |-> TRUE],
   [id |-> 2, shop |-> OldShop, startDate |-> 1, endDate |-> 2, isActive |-> TRUE]}

Init ==
  /\ now = 0
  /\ challenges = SeededChallenges
  /\ participants = {}
  /\ submissions = {}
  /\ photos = {}
  /\ nextId = [challenge |-> 3, participant |-> 1, submission |-> 1]
  /\ req = [r \in Reqs |-> IdleReq]
  /\ issued = 0
  /\ adminOps = 0
  /\ outages = 0
  /\ response = NoResponse
  /\ lastCall = [fn |-> "none"]

Tick ==
  /\ now < MaxTime
  /\ now' = now + 1
  /\ response' = NoResponse
  /\ UNCHANGED <<store, req, issued, adminOps, outages, lastCall>>

(***************************************************************************)
(* Start form action.                                                      *)
(***************************************************************************)
ShopOf(session, fallback) == IF session.present THEN session.shop ELSE fallback

\* customerId || `email:${email}` after the session and the lookup
StartCustomerId(session, lookup, email) ==
  IF lookup = "found" THEN Gid(email)
  ELSE IF session.present THEN session.customerId
  ELSE EmailId(email)

\* firstName = session name || commerce-platform name || form input
NameSource(session, lookup) ==
  IF session.present THEN "Session"
  ELSE IF lookup = "found" THEN "Shopify"
  ELSE "Form"

\* Form parsing and validation, identity and lookup (no store access), then
\* getOrCreateParticipant's first store read, getActiveChallenge.
StartSubmit(r, f) ==
  /\ FreeSlot(r)
  /\ issued < MaxRequests
  /\ UNCHANGED <<now, store, adminOps, outages, lastCall>>
  /\ IF f.email = "" THEN Reject("start", 400, "Email is required")
     ELSE IF ~f.namesGiven THEN Reject("start", 400, "First name is required")
     ELSE IF ~validateWeight(f.weight) THEN Reject("start", 400, "weight")
     ELSE IF ~photosValid(f.photos)
       THEN Reject("start", 400, "Invalid photo data. Please upload 3 photos.")
     ELSE \E ch \in getActiveChallenge(ShopOf(f.session, SHOPIFY_SHOP_DOMAIN)) :
            IF ch = NoId
              THEN Reject("start", 400, "No active challenge found")
              ELSE /\ issued' = issued + 1
                   /\ Continue(r,
                        [IdleReq EXCEPT
                           !.pc = "findParticipant", !.kind = "start",
                           !.shop = ShopOf(f.session, SHOPIFY_SHOP_DOMAIN),
                           !.customerId = StartCustomerId(f.session, f.lookup, f.email),
                           !.email = f.email,
                           !.firstName = NameSource(f.session, f.lookup),
                           !.lastName = NameSource(f.session, f.lookup),
                           !.weight = f.weight, !.photos = f.photos,
                           !.ordersCount = IF f.lookup = "found"
                                             THEN OrdersCountOf(f.email) ELSE Null,
                           !.totalSpent = IF f.lookup = "found"
                                            THEN TotalSpentOf(f.email) ELSE Null,
                           !.challengeId = ch])

StartFindParticipantGated(r) ==
  /\ req[r].pc = "findParticipant"
  /\ LET found == findUnique(req[r].challengeId, req[r].customerId)
     IN IF found = {}
          THEN Continue(r, [req[r] EXCEPT !.pc = "createParticipant"])
          ELSE IF canStartFor(req[r].challengeId, req[r].customerId).ok
            THEN Continue(r, [req[r] EXCEPT
                                !.pc = "createSubmission",
                                !.participantId = (CHOOSE p \in found : TRUE).id,
                                !.firstName = "", !.lastName = ""])
            ELSE Respond(r, 400, "You have already started this challenge")
  /\ UNCHANGED <<now, store, issued, adminOps, outages, lastCall>>

\* getOrCreateParticipant: findUnique by (challengeId, customerId)
StartFindParticipant(r) ==
  /\ req[r].pc = "findParticipant"
  /\ LET found == findUnique(req[r].challengeId, req[r].customerId)
     IN IF found = {}
          THEN Continue(r, [req[r] EXCEPT !.pc = "createParticipant"])
          ELSE Continue(r, [req[r] EXCEPT
                              !.pc = "createSubmission",
                              !.participantId = (CHOOSE p \in found : TRUE).id,
                              !.firstName = "", !.lastName = ""])
  /\ UNCHANGED <<now, store, issued, adminOps, outages, lastCall>>

NewParticipant(id, challengeId, shop, customerId, email, firstName, lastName) ==
  [id |-> id, challengeId |-> challengeId, shop |-> shop,
   customerId |-> customerId, email |-> email,
   firstName |-> firstName, lastName |-> lastName,
   status |-> NOT_STARTED, startWeight |-> Null, endWeight |-> Null,
   startedAt |-> Null, completedAt |-> Null,
   ordersCount |-> Null, totalSpent |-> Null, createdAt |-> now]

\* The store accepts the row only if the challenge still exists and no row
\* has the same (challengeId, customerId).
ParticipantInsertOkNoIndex(challengeId, customerId) == HasChallenge(challengeId)

ParticipantInsertOk(challengeId, customerId) ==
  /\ HasChallenge(challengeId)
  /\ findUnique(challengeId, customerId) = {}

\* getOrCreateParticipant: prisma.participant.create
StartCreateParticipant(r) ==
  /\ req[r].pc = "createParticipant"
  /\ UNCHANGED <<now, challenges, submissions, photos, issued, adminOps, lastCall>>
  /\ \/ /\ ParticipantInsertOk(req[r].challengeId, req[r].customerId)
        /\ participants' = participants \cup
             {NewParticipant(nextId.participant, req[r].challengeId, req[r].shop,
                             req[r].customerId, req[r].email,
                             req[r].firstName, req[r].lastName)}
        /\ nextId' = [nextId EXCEPT !.participant = @ + 1]
        /\ UNCHANGED outages
        /\ Continue(r, [req[r] EXCEPT !.pc = "createSubmission",
                                      !.participantId = nextId.participant,
                                      !.firstName = "", !.lastName = ""])
     \/ /\ WriteFails(ParticipantInsertOk(req[r].challengeId, req[r].customerId))
        /\ Respond(r, 500, GenericFailure)
        /\ UNCHANGED <<participants, nextId>>

NewSubmission(id, participantId, shop, type, weight) ==
  [id |-> id, participantId |-> participantId, shop |-> shop,
   type |-> type, weight |-> weight]

\* prisma.submission.create of either form; the photo creates are then
\* issued together (Promise.all).
CreateSubmission(r, type) ==
  /\ req[r].pc = "createSubmission"
  /\ UNCHANGED <<now, challenges, participants, photos, issued, adminOps, lastCall>>
  /\ \/ /\ HasParticipant(req[r].participantId)
        /\ submissions' = submissions \cup
             {NewSubmission(nextId.submission, req[r].participantId,
                            req[r].shop, type, req[r].weight)}
        /\ nextId' = [nextId EXCEPT !.submission = @ + 1]
        /\ UNCHANGED outages
        /\ Continue(r, [req[r] EXCEPT !.pc = "photos",
                                      !.submissionId = nextId.submission,
                                      !.pending = 1..PhotoCount])
     \/ /\ WriteFails(HasParticipant(req[r].participantId))
        /\ Respond(r, 500, GenericFailure)
        /\ UNCHANGED <<submissions, nextId>>

StartCreateSubmission(r) ==
  /\ req[r].kind = "start"
  /\ CreateSubmission(r, "START")

\* One prisma.photo.create of the Promise.all.  The first rejection sends
\* the request to its catch block, which answers; creates already issued
\* still complete.  When all three have succeeded the request takes the
\* timestamp of its participant update.  The creates write disjoint rows,
\* so they are taken in the order of the array.
PhotoStored(r, rest) ==
  IF rest # {}
    THEN Continue(r, [req[r] EXCEPT !.pending = rest])
    ELSE IF req[r].failed
      THEN Continue(r, IdleReq)
      ELSE Continue(r, [req[r] EXCEPT !.pending = rest, !.pc = "update", !.ts = now])

PhotoRejectedSwallowed(r, rest) == PhotoStored(r, rest)

PhotoRejected(r, rest) ==
  /\ req' = [req EXCEPT ![r] =
               IF rest # {}
                 THEN [req[r] EXCEPT !.pending = rest, !.failed = TRUE]
                 ELSE IdleReq]
  /\ IF req[r].failed
       THEN response' = NoResponse
       ELSE response' = [kind |-> req[r].kind, status |-> 500, text |-> GenericFailure]

CreatePhoto(r, i) ==
  /\ req[r].pc = "photos"
  /\ i \in req[r].pending
  /\ \A j \in req[r].pending : i <= j
  /\ UNCHANGED <<now, challenges, participants, submissions, nextId, issued, adminOps, lastCall>>
  /\ LET photo == PhotoInputs[req[r].photos][i]
         accepted == /\ photo.orientation \in Orientations
                     /\ HasSubmission(req[r].submissionId)
         rest == req[r].pending \ {i}
     IN \/ /\ accepted
           /\ UNCHANGED outages
           /\ photos' = photos \cup
                {[submissionId |-> req[r].submissionId, idx |-> i,
                  shop |-> req[r].shop, order |-> photo.order,
                  orientation |-> photo.orientation]}
           /\ PhotoStored(r, rest)
        \/ /\ WriteFails(accepted)
           /\ UNCHANGED photos
           /\ PhotoRejected(r, rest)

StartCreatePhoto(r, i) ==
  /\ req[r].kind = "start"
  /\ CreatePhoto(r, i)

\* prisma.participant.update: status IN_PROGRESS, startWeight, startedAt,
\* ordersCount, totalSpent
StartedRowUnstamped(p, r) ==
  [p EXCEPT !.status = IN_PROGRESS,
            !.startWeight = req[r].weight,
            !.ordersCount = req[r].ordersCount,
            !.totalSpent = req[r].totalSpent]

StartedRow(p, r) ==
  [p EXCEPT !.status = IN_PROGRESS,
            !.startWeight = req[r].weight,
            !.startedAt = req[r].ts,
            !.ordersCount = req[r].ordersCount,
            !.totalSpent = req[r].totalSpent]

StartUpdateParticipant(r) ==
  /\ req[r].pc = "update"
  /\ req[r].kind = "start"
  /\ UNCHANGED <<now, challenges, submissions, photos, nextId, issued, adminOps, lastCall>>
  /\ \/ /\ HasParticipant(req[r].participantId)
        /\ participants' =
             {IF p.id = req[r].participantId
                THEN StartedRow(p, r)
                ELSE p : p \in participants}
        /\ Respond(r, 302, "/customer/challenge/success?type=start")
        /\ UNCHANGED outages
     \/ /\ WriteFails(HasParticipant(req[r].participantId))
        /\ Respond(r, 500, GenericFailure)
        /\ UNCHANGED participants

(***************************************************************************)
(* End form action.                                                        *)
(***************************************************************************)
\* prisma.participant.findFirst({where: {email, shop, status: IN_PROGRESS},
\* orderBy: {createdAt: "desc"}})
findInProgress(email, shop) ==
  LET S == {p \in participants :
              p.email = email /\ p.shop = shop /\ p.status = IN_PROGRESS}
  IN {p \in S : \A q \in S : q.createdAt <= p.createdAt}

\* Form parsing and validation, identity and lookup (no store access), then
\* the participant lookup by email.
EndSubmit(r, f) ==
  /\ FreeSlot(r)
  /\ issued < MaxRequests
  /\ UNCHANGED <<now, store, adminOps, outages, lastCall>>
  /\ IF f.email = "" THEN Reject("end", 400, "Email is required")
     ELSE IF ~validateWeight(f.weight) THEN Reject("end", 400, "weight")
     ELSE IF ~photosValid(f.photos)
       THEN Reject("end", 400, "Invalid photo data. Please upload 3 photos.")
     ELSE IF findInProgress(f.email, ShopOf(f.session, OldShop)) = {}
       THEN Reject("end", 400, "No active challenge found for this email. Please start the challenge first.")
       ELSE \E p \in findInProgress(f.email, ShopOf(f.session, OldShop)) :
              /\ issued' = issued + 1
              /\ Continue(r,
                   [IdleReq EXCEPT
                      !.pc = "createSubmission", !.kind = "end",
                      !.shop = ShopOf(f.session, OldShop),
                      !.email = f.email,
                      !.weight = f.weight, !.photos = f.photos,
                      !.ordersCount = IF f.lookup = "found"
                                        THEN OrdersCountOf(f.email) ELSE Null,
                      !.totalSpent = IF f.lookup = "found"
                                       THEN TotalSpentOf(f.email) ELSE Null,
                      !.participantId = p.id])

EndCreateSubmission(r) ==
  /\ req[r].kind = "end"
  /\ CreateSubmission(r, "END")

EndCreatePhoto(r, i) ==
  /\ req[r].kind = "end"
  /\ CreatePhoto(r, i)

\* prisma.participant.update: status COMPLETED, endWeight, completedAt,
\* ordersCount, totalSpent
CompletedRowSameStatus(p, r) ==
  [p EXCEPT !.endWeight = req[r].weight,
            !.completedAt = req[r].ts,
            !.ordersCount = req[r].ordersCount,
            !.totalSpent = req[r].totalSpent]

CompletedRow(p, r) ==
  [p EXCEPT !.status = COMPLETED,
            !.endWeight = req[r].weight,
            !.completedAt = req[r].ts,
            !.ordersCount = req[r].ordersCount,
            !.totalSpent = req[r].totalSpent]

EndUpdateParticipant(r) ==
  /\ req[r].pc = "update"
  /\ req[r].kind = "end"
  /\ UNCHANGED <<now, challenges, submissions, photos, nextId, issued, adminOps, lastCall>>
  /\ \/ /\ HasParticipant(req[r].participantId)
        /\ participants' =
             {IF p.id = req[r].participantId
                THEN CompletedRow(p, r)
                ELSE p : p \in participants}
        /\ Respond(r, 302, "/customer/challenge/success?type=end")
        /\ UNCHANGED outages
     \/ /\ WriteFails(HasParticipant(req[r].participantId))
        /\ Respond(r, 500, GenericFailure)
        /\ UNCHANGED participants

(***************************************************************************)
(* Admin challenge actions.                                                *)
(***************************************************************************)
NewChallenge(id, shop, startDate, endDate) ==
  [id |-> id, shop |-> shop, startDate |-> startDate, endDate |-> endDate,
   isActive |-> TRUE]

\* challenges route, create: validateAdminChallengeForm then createChallenge
\* for the session's shop
CreateChallenge(sessionShop, nameGiven, startDate, endDate) ==
  /\ adminOps < MaxAdminOps
  /\ adminOps' = adminOps + 1
  /\ IF nameGiven /\ validateDateRange(startDate, endDate)
       THEN /\ challenges' = challenges \cup
                 {NewChallenge(nextId.challenge, sessionShop, startDate, endDate)}
            /\ nextId' = [nextId EXCEPT !.challenge = @ + 1]
       ELSE UNCHANGED <<challenges, nextId>>
  /\ response' = NoResponse
  /\ UNCHANGED <<now, participants, submissions, photos, req, issued, outages, lastCall>>

\* edit route, update: updateChallenge(params.id, {startDate, endDate})
UpdateChallenge(sessionShop, challengeId, startDate, endDate) ==
  /\ adminOps < MaxAdminOps
  /\ adminOps' = adminOps + 1
  /\ HasChallenge(challengeId)
  /\ challenges' = {IF c.id = challengeId
                      THEN [c EXCEPT !.startDate = startDate, !.endDate = endDate]
                      ELSE c : c \in challenges}
  /\ response' = NoResponse
  /\ UNCHANGED <<now, participants, submissions, photos, nextId, req, issued, outages, lastCall>>

DeleteChallengeNoCascade(sessionShop, challengeId) ==
  /\ HasChallenge(challengeId)
  /\ challenges' = {c \in challenges : c.id # challengeId}
  /\ response' = NoResponse
  /\ UNCHANGED <<now, participants, submissions, photos, nextId, req, issued,
                 adminOps, outages, lastCall>>

\* deleteChallenge(id) of either admin route; the store cascades to the
\* challenge's participants, their submissions and their photos.
DeleteChallenge(sessionShop, challengeId) ==
  /\ HasChallenge(challengeId)
  /\ LET gonePs == {p.id : p \in {q \in participants : q.challengeId = challengeId}}
         goneSs == {s.id : s \in {t \in submissions : t.participantId \in gonePs}}
     IN /\ challenges' = {c \in challenges : c.id # challengeId}
        /\ participants' = {p \in participants : p.id \notin gonePs}
        /\ submissions' = {s \in submissions : s.id \notin goneSs}
        /\ photos' = {ph \in photos : ph.submissionId \notin goneSs}
  /\ response' = NoResponse
  /\ UNCHANGED <<now, nextId, req, issued, adminOps, outages, lastCall>>

(***************************************************************************)
(* The system.                                                             *)
(***************************************************************************)
Next ==
  \/ Tick
  \/ \E r \in Reqs, f \in LifecycleForms : StartSubmit(r, f)
  \/ \E r \in Reqs : StartFindParticipant(r)
  \/ \E r \in Reqs : StartCreateParticipant(r)
  \/ \E r \in Reqs : StartCreateSubmission(r)
  \/ \E r \in Reqs, i \in 1..PhotoCount : StartCreatePhoto(r, i)
  \/ \E r \in Reqs : StartUpdateParticipant(r)
  \/ \E r \in Reqs, f \in LifecycleForms \cap EndForms : EndSubmit(r, f)
  \/ \E r \in Reqs : EndCreateSubmission(r)
  \/ \E r \in Reqs, i \in 1..PhotoCount : EndCreatePhoto(r, i)
  \/ \E r \in Reqs : EndUpdateParticipant(r)
  \/ \E shop \in Shops, c \in challenges : DeleteChallenge(shop, c.id)

Spec == Init /\ [][Next]_vars

(***************************************************************************)
(* Lifecycle properties.                                                   *)
(***************************************************************************)
Rank(status) ==
  IF status = NOT_STARTED THEN 0 ELSE IF status = IN_PROGRESS THEN 1 ELSE 2

\* C1: every participant has at most one START submission, whatever start
\* forms were posted.
C1_AtMostOneStart ==
  \A p \in participants : Cardinality(StartSubmissionsOf(p.id)) <= 1

\* C2: every participant has at most one END submission, whatever start and
\* end forms were posted.
C2_AtMostOneEnd ==
  \A p \in participants : Cardinality(EndSubmissionsOf(p.id)) <= 1

\* C3: no step moves the status of a participant row backwards in the order
\* NOT_STARTED, IN_PROGRESS, COMPLETED.
C3_StatusNeverRegresses ==
  [][\A p \in participants : \A q \in participants' :
       q.id = p.id => Rank(q.status) >= Rank(p.status)]_vars

\* A step that changes the status of participant pid is the participant
\* update of a request whose submission and three photos are stored, and
\* that request writes nothing after it.
StatusWriteIsLast(pid) ==
  \E r \in Reqs :
    /\ req[r].pc = "update"
    /\ req[r].participantId = pid
    /\ HasSubmission(req[r].submissionId)
    /\ Cardinality(PhotosOf(req[r].submissionId)) = PhotoCount
    /\ req'[r] = IdleReq
    /\ submissions' = submissions
    /\ photos' = photos

C4_StatusBacked ==
  \A p \in participants :
    /\ p.status \in {IN_PROGRESS, COMPLETED} => StartSubmissionsOf(p.id) # {}
    /\ p.status = COMPLETED => EndSubmissionsOf(p.id) # {}

\* C4: a status changes only in the last write of a request, after its
\* submission and all three photos were written; so a participant that is
\* IN_PROGRESS or COMPLETED has a START submission and one that is
\* COMPLETED has an END submission.
C4_StatusAfterSubmission ==
  /\ [][\A p \in participants : \A q \in participants' :
          (q.id = p.id /\ q.status # p.status) => StatusWriteIsLast(p.id)]_vars
  /\ []C4_StatusBacked

C4_Witness ==
  \E p \in participants :
    /\ p.status = COMPLETED
    /\ \E s \in EndSubmissionsOf(p.id) : Cardinality(PhotosOf(s.id)) = PhotoCount

\* C5: a NOT_STARTED participant has no weights and no timestamps, one that
\* is IN_PROGRESS or COMPLETED has startWeight and startedAt, and one that
\* is COMPLETED also has endWeight and completedAt.
C5_StampsFollowStatus ==
  \A p \in participants :
    /\ p.status = NOT_STARTED =>
         /\ p.startWeight = Null /\ p.endWeight = Null
         /\ p.startedAt = Null /\ p.completedAt = Null
    /\ p.status \in {IN_PROGRESS, COMPLETED} =>
         p.startWeight # Null /\ p.startedAt # Null
    /\ p.status = COMPLETED =>
         p.endWeight # Null /\ p.completedAt # Null

C5_Witness ==
  /\ \E p \in participants : p.status = NOT_STARTED
  /\ \E p \in participants : p.status = COMPLETED /\ p.endWeight = MinWeightLbs

AlreadyStarted == [ok |-> FALSE, reason |-> "You have already started this challenge"]

\* C10: while a challenge is the active one of its shop, canStartChallenge
\* is eligible for a shopper without a participant row in it, and
\* ineligible ("already started") for every shopper whose start submission
\* the start action has recorded in it.
C10_StartOnce ==
  \A shop \in Shops : \A ch \in getActiveChallenge(shop) : ch # NoId =>
    /\ \A cid \in CustomerIds :
         findUnique(ch, cid) = {} => canStartFor(ch, cid).ok
    /\ \A p \in participants :
         (p.challengeId = ch /\ StartSubmissionsOf(p.id) # {}) =>
           canStartFor(ch, p.customerId) = AlreadyStarted

C10_Witness ==
  \E p \in participants :
    /\ p.challengeId \in getActiveChallenge(p.shop)
    /\ p.status = NOT_STARTED
    /\ StartSubmissionsOf(p.id) # {}

(***************************************************************************)
(* The lifecycle module's queries on arbitrary stores.  The stores are     *)
(* those the schema admits: challenge rows with any dates and flag, and    *)
(* participant rows with any status and any START/END submissions.         *)
(***************************************************************************)
MaxDate == 2
PureDates == 0..MaxDate

ChallengeRows(id) ==
  [id : {id}, shop : Shops, startDate : PureDates, endDate : PureDates,
   isActive : BOOLEAN]

\* Stores with up to two challenges and no participants.
ChallengeStores ==
  {[challenges |-> cs, participants |-> {}, submissions |-> {}] :
     cs \in {{}} \cup {{c} : c \in ChallengeRows(1)}
            \cup {{c, d} : c \in ChallengeRows(1), d \in ChallengeRows(2)}}

ParticipantRows(id, chs) ==
  {NewRow : NewRow \in
     [id : {id}, challengeId : {c.id : c \in chs}, shop : {OldShop},
      customerId : CustomerIds, email : Emails,
      firstName : {"Form"}, lastName : {"Form"}, status : Statuses,
      startWeight : {Null}, endWeight : {Null}, startedAt : {Null},
      completedAt : {Null}, ordersCount : {Null}, totalSpent : {Null},
      createdAt : {0}]}

SubmissionRows(ps) ==
  {[id |-> 2 * p.id - (IF type = "START" THEN 1 ELSE 0), participantId |-> p.id,
    shop |-> p.shop, type |-> type, weight |-> MinWeightLbs] :
     p \in ps, type \in {"START", "END"}}

EligibilityChallenges ==
  {{[id |-> 1, shop |-> OldShop, startDate |-> 0, endDate |-> MaxDate, isActive |-> TRUE]},
   {[id |-> 1, shop |-> OldShop, startDate |-> 0, endDate |-> MaxDate, isActive |-> TRUE],
    [id |-> 2, shop |-> OldShop, startDate |-> 1, endDate |-> MaxDate, isActive |-> TRUE]},
   {[id |-> 1, shop |-> OldShop, startDate |-> 0, endDate |-> MaxDate, isActive |-> TRUE],
    [id |-> 2, shop |-> NewShop, startDate |-> 0, endDate |-> MaxDate, isActive |-> TRUE]}}

\* Stores with up to two participants, no two with the same
\* (challengeId, customerId), and any of their START and END submissions.
ParticipantSets(chs) ==
  {{}} \cup {{p} : p \in ParticipantRows(1, chs)}
       \cup {{p, q} : p \in ParticipantRows(1, chs),
                      q \in {x \in ParticipantRows(2, chs) :
                               x.status = NOT_STARTED}}

UniqueKey(ps) ==
  \A p \in ps, q \in ps :
    (p.challengeId = q.challengeId /\ p.customerId = q.customerId) => p = q

EligibilityStores ==
  UNION {UNION {{[challenges |-> chs, participants |-> ps, submissions |-> ss] :
                   ss \in SUBSET SubmissionRows(ps)} :
                ps \in {x \in ParticipantSets(chs) : UniqueKey(x)}} :
         chs \in EligibilityChallenges}

InitPure ==
  /\ now \in PureDates
  /\ \E st \in ChallengeStores \cup EligibilityStores :
       /\ challenges = st.challenges
       /\ participants = st.participants
       /\ submissions = st.submissions
  /\ photos = {}
  /\ nextId = [challenge |-> 3, participant |-> 3, submission |-> 5]
  /\ req = [r \in Reqs |-> IdleReq]
  /\ issued = 0
  /\ adminOps = 0
  /\ outages = 0
  /\ response = NoResponse
  /\ lastCall = [fn |-> "none"]

CallGetActiveChallenge(shop) ==
  /\ \E ch \in getActiveChallenge(shop) :
       lastCall' = [fn |-> "getActiveChallenge", shop |-> shop, challengeId |-> ch]
  /\ UNCHANGED <<now, store, req, issued, adminOps, outages, response>>

CallCanStartChallenge(shop, customerId) ==
  /\ \E ch \in getActiveChallenge(shop) :
       lastCall' = [fn |-> "canStartChallenge", shop |-> shop,
                    customerId |-> customerId, challengeId |-> ch,
                    result |-> canStartFor(ch, customerId)]
  /\ UNCHANGED <<now, store, req, issued, adminOps, outages, response>>

CallCanEndChallenge(shop, customerId) ==
  /\ \E ch \in getActiveChallenge(shop) :
       lastCall' = [fn |-> "canEndChallenge", shop |-> shop,
                    customerId |-> customerId, challengeId |-> ch,
                    result |-> canEndFor(ch, customerId)]
  /\ UNCHANGED <<now, store, req, issued, adminOps, outages, response>>

NextPure ==
  \/ \E shop \in Shops : CallGetActiveChallenge(shop)
  \/ \E shop \in Shops, cid \in CustomerIds : CallCanStartChallenge(shop, cid)
  \/ \E shop \in Shops, cid \in CustomerIds : CallCanEndChallenge(shop, cid)

SpecPure == InitPure /\ [][NextPure]_vars

RowsFor(challengeId, customerId) ==
  {p \in participants : p.challengeId = challengeId /\ p.customerId = customerId}

HasSubmissionOfType(p, type) ==
  \E s \in submissions : s.participantId = p.id /\ s.type = type

\* C6: with an active challenge, canStartChallenge is eligible exactly when
\* there is no participant row for (challenge, customer) or the row is
\* NOT_STARTED and has no START submission; otherwise it is ineligible with
\* "You have already started this challenge".
C6_CanStart ==
  (lastCall.fn = "canStartChallenge" /\ lastCall.challengeId # NoId) =>
    LET rows == RowsFor(lastCall.challengeId, lastCall.customerId)
        fresh == \A p \in rows :
                   p.status = NOT_STARTED /\ ~HasSubmissionOfType(p, "START")
    IN /\ lastCall.result.ok <=> fresh
       /\ ~fresh => lastCall.result.reason = "You have already started this challenge"

C6_Witness ==
  /\ lastCall.fn = "canStartChallenge"
  /\ ~lastCall.result.ok
  /\ \E p \in RowsFor(lastCall.challengeId, lastCall.customerId) :
       p.status = NOT_STARTED /\ HasSubmissionOfType(p, "START")

\* C7: with an active challenge, canEndChallenge answers, in this order:
\* "You must start the challenge first" without a participant row, "You
\* must complete the start form first" without a START submission, "You
\* have already completed this challenge" with an END submission, and
\* eligible otherwise.
C7_CanEnd ==
  (lastCall.fn = "canEndChallenge" /\ lastCall.challengeId # NoId) =>
    LET rows == RowsFor(lastCall.challengeId, lastCall.customerId)
        res == lastCall.result
    IN /\ rows = {} =>
            ~res.ok /\ res.reason = "You must start the challenge first"
       /\ \A p \in rows :
            /\ ~HasSubmissionOfType(p, "START") =>
                 ~res.ok /\ res.reason = "You must complete the start form first"
            /\ (HasSubmissionOfType(p, "START") /\ HasSubmissionOfType(p, "END")) =>
                 ~res.ok /\ res.reason = "You have already completed this challenge"
            /\ (HasSubmissionOfType(p, "START") /\ ~HasSubmissionOfType(p, "END")) =>
                 res.ok

C7_Witness ==
  /\ lastCall.fn = "canEndChallenge"
  /\ lastCall.result.reason = "You must complete the start form first"
  /\ \E p \in RowsFor(lastCall.challengeId, lastCall.customerId) :
       HasSubmissionOfType(p, "END")

InitAdmin ==
  /\ now = 0
  /\ challenges = {}
  /\ participants = {}
  /\ submissions = {}
  /\ photos = {}
  /\ nextId = [challenge |-> 1, participant |-> 1, submission |-> 1]
  /\ req = [r \in Reqs |-> IdleReq]
  /\ issued = 0
  /\ adminOps = 0
  /\ outages = 0
  /\ response = NoResponse
  /\ lastCall = [fn |-> "none"]

NextAdmin ==
  \/ Tick
  \/ \E shop \in Shops, nameGiven \in BOOLEAN, s \in PureDates, e \in PureDates :
       CreateChallenge(shop, nameGiven, s, e)
  \/ \E shop \in Shops, c \in challenges, s \in PureDates, e \in PureDates :
       UpdateChallenge(shop, c.id, s, e)
  \/ \E shop \in Shops, c \in challenges : DeleteChallenge(shop, c.id)

SpecAdmin == InitAdmin /\ [][NextAdmin]_vars

NoActiveChallenge == [ok |-> FALSE, reason |-> "No active challenge available"]

\* C9: for a shop with no challenge that is isActive with endDate >= now,
\* getActiveChallenge returns null, canStartChallenge and canEndChallenge
\* answer "No active challenge available", and getOrCreateParticipant,
\* which returns null exactly when getActiveChallenge does, creates no row.
C9_NoChallengeNoService ==
  \A shop \in Shops :
    (~\E c \in challenges : c.shop = shop /\ c.isActive /\ c.endDate >= now) =>
      /\ getActiveChallenge(shop) = {NoId}
      /\ \A cid \in CustomerIds :
           /\ canStartChallenge(shop, cid) = {NoActiveChallenge}
           /\ canEndChallenge(shop, cid) = {NoActiveChallenge}

(***************************************************************************)
(* Ending once, and get-or-create.                                         *)
(***************************************************************************)
AlreadyCompleted ==
  [ok |-> FALSE, reason |-> "You have already completed this challenge"]

EndSucceeds(r) ==
  /\ req[r].kind = "end"
  /\ req[r].pc = "update"
  /\ response'.kind = "end"
  /\ response'.status = 302

CallEmails == Emails \cup {"b@x.com"}
CallNames == {"Ann", "Bea"}
GetOrCreate == "getOrCreateParticipant"

\* What a call returns (participantId, NoId for null), whether it created
\* the row or threw, and the row the previous call returned if that call
\* had the same shop, customerId and active challenge.
CallRecord(shop, customerId, email, challengeId, participantId, created, threw) ==
  [fn |-> GetOrCreate, shop |-> shop, customerId |-> customerId,
   email |-> email, challengeId |-> challengeId,
   participantId |-> participantId, created |-> created, threw |-> threw,
   previous |-> IF /\ lastCall.fn = GetOrCreate
                   /\ lastCall.shop = shop
                   /\ lastCall.customerId = customerId
                   /\ lastCall.challengeId = challengeId
                  THEN lastCall.participantId ELSE NoId]

getOrCreateParticipantOverwriting(shop, customerId, email, firstName, lastName) ==
  /\ issued < MaxRequests
  /\ issued' = issued + 1
  /\ \E ch \in getActiveChallenge(shop) :
       IF ch = NoId
         THEN /\ lastCall' = CallRecord(shop, customerId, email, NoId, NoId, FALSE, FALSE)
              /\ UNCHANGED <<participants, nextId>>
         ELSE IF findUnique(ch, customerId) # {}
           THEN LET participant == CHOOSE p \in findUnique(ch, customerId) : TRUE
                IN /\ participants' =
                        (participants \ {participant}) \cup
                          {[participant EXCEPT !.email = email,
                                               !.firstName = firstName,
                                               !.lastName = lastName]}
                   /\ lastCall' = CallRecord(shop, customerId, email, ch,
                                             participant.id, FALSE, FALSE)
                   /\ UNCHANGED nextId
           ELSE IF ParticipantInsertOk(ch, customerId)
             THEN /\ participants' = participants \cup
                       {NewParticipant(nextId.participant, ch, shop, customerId,
                                       email, firstName, lastName)}
                  /\ nextId' = [nextId EXCEPT !.participant = @ + 1]
                  /\ lastCall' = CallRecord(shop, customerId, email, ch,
                                            nextId.participant, TRUE, FALSE)
             ELSE /\ lastCall' = CallRecord(shop, customerId, email, ch, NoId, FALSE, TRUE)
                  /\ UNCHANGED <<participants, nextId>>
  /\ response' = NoResponse
  /\ UNCHANGED <<now, challenges, submissions, photos, req, adminOps, outages>>

getOrCreateParticipant(shop, customerId, email, firstName, lastName) ==
  /\ issued < MaxRequests
  /\ issued' = issued + 1
  /\ \E ch \in getActiveChallenge(shop) :
       IF ch = NoId
         THEN /\ lastCall' = CallRecord(shop, customerId, email, NoId, NoId, FALSE, FALSE)
              /\ UNCHANGED <<participants, nextId>>
         ELSE IF findUnique(ch, customerId) # {}
           THEN /\ lastCall' = CallRecord(shop, customerId, email, ch,
                                 (CHOOSE p \in findUnique(ch, customerId) : TRUE).id,
                                 FALSE, FALSE)
                /\ UNCHANGED <<participants, nextId>>
           ELSE IF ParticipantInsertOk(ch, customerId)
             THEN /\ participants' = participants \cup
                       {NewParticipant(nextId.participant, ch, shop, customerId,
                                       email, firstName, lastName)}
                  /\ nextId' = [nextId EXCEPT !.participant = @ + 1]
                  /\ lastCall' = CallRecord(shop, customerId, email, ch,
                                            nextId.participant, TRUE, FALSE)
             ELSE /\ lastCall' = CallRecord(shop, customerId, email, ch, NoId, FALSE, TRUE)
                  /\ UNCHANGED <<participants, nextId>>
  /\ response' = NoResponse
  /\ UNCHANGED <<now, challenges, submissions, photos, req, adminOps, outages>>

InitCalls ==
  /\ now = 0
  /\ challenges = SeededChallenges \cup
       {[id |-> 3, shop |-> NewShop, startDate |-> 0, endDate |-> 1, isActive |-> TRUE]}
  /\ participants = {}
  /\ submissions = {}
  /\ photos = {}
  /\ nextId = [challenge |-> 4, participant |-> 1, submission |-> 1]
  /\ req = [r \in Reqs |-> IdleReq]
  /\ issued = 0
  /\ adminOps = 0
  /\ outages = 0
  /\ response = NoResponse
  /\ lastCall = [fn |-> "none"]

NextCalls ==
  \/ Tick
  \/ \E shop \in Shops, cid \in CustomerIds, email \in CallEmails, name \in CallNames :
       getOrCreateParticipant(shop, cid, email, name, name)
  \/ \E shop \in Shops, c \in challenges : DeleteChallenge(shop, c.id)

SpecCalls == InitCalls /\ [][NextCalls]_vars

\* C12: a getOrCreateParticipant call that follows a call with the same shop
\* and customerId, with the same challenge active, returns the row the first
\* call returned and writes nothing; the two calls leave exactly one row
\* for the (challenge, customer).
C12_GetOrCreateIdempotent ==
  /\ []((lastCall.fn = GetOrCreate /\ lastCall.previous # NoId
         /\ HasChallenge(lastCall.challengeId)) =>
          /\ lastCall.participantId = lastCall.previous
          /\ ~lastCall.created /\ ~lastCall.threw
          /\ Cardinality(RowsFor(lastCall.challengeId, lastCall.customerId)) = 1
          /\ \E p \in RowsFor(lastCall.challengeId, lastCall.customerId) :
               p.id = lastCall.participantId)
  /\ [][(lastCall'.fn = GetOrCreate /\ issued' = issued + 1
         /\ lastCall'.previous # NoId) =>
          /\ participants' = participants
          /\ nextId' = nextId]_vars

C12_Witness ==
  /\ lastCall.fn = GetOrCreate
  /\ lastCall.previous # NoId
  /\ lastCall.participantId = lastCall.previous
  /\ issued = 2
  /\ Cardinality(participants) = 1

\* C13: a getOrCreateParticipant call that finds a row for (active
\* challenge, customerId) leaves every field of that row, and every other
\* row, as it was, whatever email and names the call passes.
C13_ExistingRowUntouched ==
  [][(lastCall'.fn = GetOrCreate /\ issued' = issued + 1) =>
       \A p \in participants :
         (\E ch \in getActiveChallenge(lastCall'.shop) :
            p.challengeId = ch /\ p.customerId = lastCall'.customerId) =>
           /\ p \in participants'
           /\ participants' = participants]_vars

C13_Witness ==
  /\ lastCall.fn = GetOrCreate
  /\ ~lastCall.created
  /\ \E p \in participants :
       /\ p.id = lastCall.participantId
       /\ p.email # lastCall.email

(***************************************************************************)
(* The creation race of concurrent start requests.                         *)
(***************************************************************************)
LosesRace(r) ==
  /\ req[r].pc = "createParticipant"
  /\ findUnique(req[r].challengeId, req[r].customerId) # {}

\* C14: whatever the interleaving of start requests, no two participant
\* rows have the same (challengeId, customerId), and a create issued after
\* another request created the row writes nothing.
C14_OneRowPerKey ==
  /\ [](\A p \in participants, q \in participants :
          (p.challengeId = q.challengeId /\ p.customerId = q.customerId) => p.id = q.id)
  /\ [][\A r \in Reqs : (LosesRace(r) /\ req'[r] # req[r]) =>
          participants' = participants]_vars

C14_Witness ==
  \E r \in Reqs :
    /\ LosesRace(r)
    /\ \E p \in participants :
         p.challengeId = req[r].challengeId /\ p.customerId = req[r].customerId

\* C15: the start request whose participant create is rejected by the
\* uniqueness constraint is not answered with a server error or the generic
\* failure message.
C15_RaceLoserNotFatal ==
  [][\A r \in Reqs : (LosesRace(r) /\ req'[r] # req[r]) =>
       ~(response'.status = 500 \/ response'.text = GenericFailure)]_vars

(***************************************************************************)
(* One shopper posting the start form again and again, with and without a  *)
(* customer session, the commerce-platform lookup answering or not.        *)
(***************************************************************************)
IdentityForms ==
  {f \in Forms : /\ OddFields(f) = 0
                 /\ f.weight = MinWeightLbs
                 /\ f.photos = "good"}

NextIdentity ==
  \/ Tick
  \/ \E f \in IdentityForms : StartSubmit(1, f)
  \/ StartFindParticipant(1)
  \/ StartCreateParticipant(1)
  \/ StartCreateSubmission(1)
  \/ \E i \in 1..PhotoCount : StartCreatePhoto(1, i)
  \/ StartUpdateParticipant(1)

SpecIdentity == Init /\ [][NextIdentity]_vars

\* C16: a shopper (an email in a shop) has one participant row per
\* challenge, however many start forms they posted and whether or not the
\* session and the customer lookup were available on each post.
C16_OneRowPerShopper ==
  \A p \in participants, q \in participants :
    (p.challengeId = q.challengeId /\ p.shop = q.shop /\ p.email = q.email)
      => p.id = q.id

\* C17: after any admin creates, edits and deletes every stored challenge
\* has startDate < endDate.
C17_DatesOrdered ==
  \A c \in challenges : c.startDate < c.endDate

(***************************************************************************)
(* Presign endpoints of the three upload backends.  A request body is      *)
(* JSON, so order is any number: it is held in halves (2 is order 1, 3 is  *)
(* order 1.5) and a missing field is Null.                                 *)
(***************************************************************************)
S3_MAX_FILE_SIZE == 5 * 1024 * 1024
CLOUDINARY_MAX_FILE_SIZE == 5 * 1024 * 1024
SHOPIFY_MAX_FILE_SIZE == 20 * 1024 * 1024
S3_ALLOWED_MIME_TYPES == {"image/jpeg", "image/jpg", "image/png", "image/webp"}
CLOUDINARY_ALLOWED_MIME_TYPES == {"image/jpeg", "image/jpg", "image/png", "image/webp"}
SHOPIFY_ALLOWED_MIME_TYPES ==
  {"image/jpeg", "image/jpg", "image/png", "image/webp", "image/gif"}

Half == 2
PresignBodies ==
  [fileName : {"", "a.jpg"},
   fileType : {"", "image/jpeg", "image/png", "image/webp", "image/gif",
               "application/pdf"},
   fileSize : {Null, 0, 1, S3_MAX_FILE_SIZE, S3_MAX_FILE_SIZE + 1,
               SHOPIFY_MAX_FILE_SIZE, SHOPIFY_MAX_FILE_SIZE + 1},
   order : {Null, 0, 1 * Half, 1 * Half + 1, 3 * Half, 3 * Half + 1, 4 * Half},
   submissionId : {"", "s1"}]

Invalid(error) == [valid |-> FALSE, error |-> error]
Valid == [valid |-> TRUE, error |-> ""]

\* !order || order < 1 || order > 3
orderRejected(order) ==
  order = Null \/ order = 0 \/ order < 1 * Half \/ order > 3 * Half

\* validateUploadParams with the backend's allow-list and size limit; the
\* Shopify one does not look at order.
validateUploadParams(params, allowed, maxSize, checksOrder) ==
  IF params.fileName = "" THEN Invalid("File name is required")
  ELSE IF params.fileType = "" THEN Invalid("File type is required")
  ELSE IF params.fileType \notin allowed THEN Invalid("Invalid file type")
  ELSE IF params.fileSize = Null \/ params.fileSize <= 0
    THEN Invalid("File size must be greater than 0")
  ELSE IF params.fileSize > maxSize THEN Invalid("File size exceeds limit")
  ELSE IF checksOrder /\ orderRejected(params.order)
    THEN Invalid("Order must be 1, 2, or 3")
  ELSE Valid

PresignAnswer(backend, body, status, error, target) ==
  /\ lastCall' = [fn |-> "presign", backend |-> backend, body |-> body,
                  status |-> status, error |-> error, target |-> target]
  /\ UNCHANGED <<now, store, req, issued, adminOps, outages, response>>

\* The S3 and Cloudinary actions: validate, check submissionId, then sign;
\* signing can throw, which the catch answers with 500.
SignedPresign(backend, body, allowed, maxSize) ==
  LET validation == validateUploadParams(body, allowed, maxSize, TRUE)
  IN IF ~validation.valid
       THEN PresignAnswer(backend, body, 400, validation.error, FALSE)
       ELSE IF body.submissionId = ""
         THEN PresignAnswer(backend, body, 400, "Invalid submission ID", FALSE)
         ELSE \/ PresignAnswer(backend, body, 200, "", TRUE)
              \/ PresignAnswer(backend, body, 500, "Failed to generate upload URL", FALSE)

\* The endpoints keep no state between requests: one request is followed
\* from the state in which none was answered.
S3Presign(body) ==
  /\ lastCall.fn = "none"
  /\ SignedPresign("s3", body, S3_ALLOWED_MIME_TYPES, S3_MAX_FILE_SIZE)

CloudinaryPresign(body) ==
  /\ lastCall.fn = "none"
  /\ SignedPresign("cloudinary", body, CLOUDINARY_ALLOWED_MIME_TYPES,
                   CLOUDINARY_MAX_FILE_SIZE)

\* The Shopify action obtains an admin client first (which can throw), then
\* validates, checks submissionId and order, and creates the staged upload.
ShopifyPresign(body) ==
  LET validation == validateUploadParams(body, SHOPIFY_ALLOWED_MIME_TYPES,
                                         SHOPIFY_MAX_FILE_SIZE, FALSE)
  IN /\ lastCall.fn = "none"
     /\ \/ PresignAnswer("shopify", body, 500, "Failed to generate upload URL", FALSE)
        \/ IF ~validation.valid
             THEN PresignAnswer("shopify", body, 400, validation.error, FALSE)
             ELSE IF body.submissionId = ""
               THEN PresignAnswer("shopify", body, 400, "Invalid submission ID", FALSE)
               ELSE IF orderRejected(body.order)
                 THEN PresignAnswer("shopify", body, 400,
                                    "Order must be between 1 and 3", FALSE)
                 ELSE PresignAnswer("shopify", body, 200, "", TRUE)

NextUpload ==
  \/ \E body \in PresignBodies : S3Presign(body)
  \/ \E body \in PresignBodies : CloudinaryPresign(body)
  \/ \E body \in PresignBodies : ShopifyPresign(body)

SpecUpload == InitAdmin /\ [][NextUpload]_vars

\* C18: every backend's presign endpoint issues an upload target only for
\* a JPEG, PNG or WebP file type, a size above 0 and at most 5 MB and an
\* order of 1, 2 or 3, and answers every other request with a validation
\* error (status 400) and no target.
C18_PresignValidates ==
  lastCall.fn = "presign" =>
    LET b == lastCall.body
        acceptable ==
          /\ b.fileType \in {"image/jpeg", "image/jpg", "image/png", "image/webp"}
          /\ b.fileSize # Null /\ 0 < b.fileSize /\ b.fileSize <= 5 * 1024 * 1024
          /\ b.order \in {1 * Half, 2 * Half, 3 * Half}
    IN /\ lastCall.target => acceptable
       /\ ~acceptable => (lastCall.status = 400 /\ ~lastCall.target)

(***************************************************************************)
(* The start and end forms with every kind of field content, one request   *)
(* at a time.                                                              *)
(***************************************************************************)
MalformedEmail == "not-an-email"

ValidationForms ==
  [email : Emails \cup {"", MalformedEmail}, namesGiven : BOOLEAN,
   weight : WeightInputs, photos : {"good", "short", "notArray"},
   session : {NoSession}, lookup : {"notFound"}]

NextForms ==
  \/ \E f \in ValidationForms : StartSubmit(1, f)
  \/ StartFindParticipant(1)
  \/ StartCreateParticipant(1)
  \/ StartCreateSubmission(1)
  \/ \E i \in 1..PhotoCount : StartCreatePhoto(1, i)
  \/ StartUpdateParticipant(1)
  \/ \E f \in {g \in ValidationForms : g.namesGiven} : EndSubmit(1, f)
  \/ EndCreateSubmission(1)
  \/ \E i \in 1..PhotoCount : EndCreatePhoto(1, i)
  \/ EndUpdateParticipant(1)

SpecForms == Init /\ [][NextForms]_vars

WellFormedEmails == Emails

\* C19: a form with a bad email, a weight outside 50..1000 or a wrong
\* number of photos gets no further than validation: no request that goes
\* on to the store carries such a field, and no row holds one.
C19_InvalidFormWritesNothing ==
  /\ \A r \in Reqs : req[r].pc # "idle" =>
       /\ req[r].email \in WellFormedEmails
       /\ req[r].weight \in MinWeightLbs..MaxWeightLbs
       /\ Len(PhotoInputs[req[r].photos]) = PhotoCount
  /\ \A p \in participants : p.email \in WellFormedEmails
  /\ \A sb \in submissions : sb.weight \in MinWeightLbs..MaxWeightLbs

(***************************************************************************)
(* The diagnostic screen's repair action: five updateMany calls issued     *)
(* together, each moving one table's rows from the old shop domain to the  *)
(* new one.  The settings table holds no lifecycle data and is left out.   *)
(***************************************************************************)
FixTables == {"challenge", "participant", "submission", "photo"}

Reshop(rows) ==
  {IF row.shop = OldShop THEN [row EXCEPT !.shop = NewShop] ELSE row : row \in rows}

\* action === "fix": Promise.all([...updateMany]) is issued
FixShopDomains ==
  /\ adminOps < MaxAdminOps
  /\ lastCall.fn = "none"
  /\ adminOps' = adminOps + 1
  /\ lastCall' = [fn |-> "fix", pending |-> FixTables]
  /\ response' = NoResponse
  /\ UNCHANGED <<now, store, req, issued, outages>>

\* one of the pending updateMany calls runs
FixUpdateMany(table) ==
  /\ lastCall.fn = "fix"
  /\ table \in lastCall.pending
  /\ lastCall' = IF lastCall.pending = {table}
                   THEN [fn |-> "none"]
                   ELSE [lastCall EXCEPT !.pending = @ \ {table}]
  /\ challenges' = IF table = "challenge" THEN Reshop(challenges) ELSE challenges
  /\ participants' = IF table = "participant" THEN Reshop(participants) ELSE participants
  /\ submissions' = IF table = "submission" THEN Reshop(submissions) ELSE submissions
  /\ photos' = IF table = "photo" THEN Reshop(photos) ELSE photos
  /\ response' = NoResponse
  /\ UNCHANGED <<now, nextId, req, issued, adminOps, outages>>

RepairForms == {f \in IdentityForms : f.session = NoSession /\ f.lookup = "notFound"}

NextRepair ==
  \/ \E f \in RepairForms : StartSubmit(1, f)
  \/ StartFindParticipant(1)
  \/ StartCreateParticipant(1)
  \/ StartCreateSubmission(1)
  \/ \E i \in 1..PhotoCount : StartCreatePhoto(1, i)
  \/ StartUpdateParticipant(1)
  \/ FixShopDomains
  \/ \E table \in FixTables : FixUpdateMany(table)

SpecRepair == Init /\ [][NextRepair]_vars

\* C20: no step changes a field of an existing Submission or Photo row:
\* after every step each such row is either exactly as it was or gone.
C20_SubmissionsAndPhotosImmutable ==
  [][/\ \A sb \in submissions :
          sb \in submissions' \/ ~\E t \in submissions' : t.id = sb.id
     /\ \A ph \in photos :
          ph \in photos' \/ ~\E t \in photos' :
                               t.submissionId = ph.submissionId /\ t.idx = ph.idx]_vars

(***************************************************************************)
(* Referential integrity.                                                  *)
(***************************************************************************)
\* C21: every participant references a stored challenge, every submission a
\* stored participant and every photo a stored submission; a step that
\* removes a challenge removes its participants, their submissions and
\* their photos, and a participant row disappears only in a step that
\* removes its challenge.
C21_ReferentialIntegrity ==
  /\ [](/\ \A p \in participants : HasChallenge(p.challengeId)
        /\ \A sb \in submissions : HasParticipant(sb.participantId)
        /\ \A ph \in photos : HasSubmission(ph.submissionId))
  /\ [][/\ \A c \in challenges : (~\E d \in challenges' : d.id = c.id) =>
             /\ ~\E p \in participants' : p.challengeId = c.id
             /\ \A p \in participants : p.challengeId = c.id =>
                  /\ ~\E sb \in submissions' : sb.participantId = p.id
                  /\ \A sb \in submissions : sb.participantId = p.id =>
                       ~\E ph \in photos' : ph.submissionId = sb.id
        /\ \A p \in participants : (~\E q \in participants' : q.id = p.id) =>
             ~\E d \in challenges' : d.id = p.challengeId]_vars

C21_Witness ==
  /\ participants = {} /\ submissions = {} /\ photos = {}
  /\ challenges # {}
  /\ \E r \in Reqs :
       /\ req[r].pc = "update"
       /\ req[r].participantId # NoId
       /\ req[r].submissionId # NoId

(***************************************************************************)
(* The start and end forms with every photo array a client can post.       *)
(***************************************************************************)
PhotoForms ==
  {f \in Forms : /\ f.email # "" /\ f.namesGiven
                 /\ f.weight = MinWeightLbs
                 /\ f.session = NoSession /\ f.lookup = "notFound"}

NextPhotos ==
  \/ \E f \in PhotoForms : StartSubmit(1, f)
  \/ StartFindParticipant(1)
  \/ StartCreateParticipant(1)
  \/ StartCreateSubmission(1)
  \/ \E i \in 1..PhotoCount : StartCreatePhoto(1, i)
  \/ StartUpdateParticipant(1)
  \/ \E f \in PhotoForms : EndSubmit(1, f)
  \/ EndCreateSubmission(1)
  \/ \E i \in 1..PhotoCount : EndCreatePhoto(1, i)
  \/ EndUpdateParticipant(1)

SpecPhotos == Init /\ [][NextPhotos]_vars

\* C22: every stored photo has order 1, 2 or 3 and orientation FRONT, SIDE
\* or BACK, and a submission with its three photos stored has them in three
\* different orders.
C22_PhotosWellFormed ==
  /\ \A ph \in photos : ph.order \in 1..PhotoCount /\ ph.orientation \in Orientations
  /\ \A sb \in submissions :
       Cardinality(PhotosOf(sb.id)) = PhotoCount =>
         Cardinality({ph.order : ph \in PhotosOf(sb.id)}) = PhotoCount

(***************************************************************************)
(* The customer lookup's influence on a request.                           *)
(***************************************************************************)
SameButLookup(f, g) ==
  /\ f.email = g.email /\ f.namesGiven = g.namesGiven /\ f.weight = g.weight
  /\ f.photos = g.photos /\ f.session = g.session

\* The start (end) action accepts form f: it goes on to the store.
StartAccepts(f) == \E r \in Reqs : StartSubmit(r, f) /\ req'[r].pc # "idle"
EndAccepts(f) == \E r \in Reqs : EndSubmit(r, f) /\ req'[r].pc # "idle"

\* The start action accepts form f for the shopper identity customerId
\* (the end action for the participant row participantId).
StartAcceptsAs(f, customerId) ==
  \E r \in Reqs : StartSubmit(r, f) /\ req'[r].pc # "idle"
                  /\ req'[r].customerId = customerId
EndAcceptsFor(f, participantId) ==
  \E r \in Reqs : EndSubmit(r, f) /\ req'[r].pc # "idle"
                  /\ req'[r].participantId = participantId

\* C23: from any state, two posts of the same form that differ only in the
\* lookup's outcome are both accepted or both rejected, and are accepted
\* for the same shopper identity and the same participant: the lookup
\* changes enrichment fields only.
C23_LookupOnlyEnriches ==
  \A f \in IdentityForms, g \in IdentityForms : SameButLookup(f, g) =>
    /\ (ENABLED StartAccepts(f)) <=> (ENABLED StartAccepts(g))
    /\ (ENABLED EndAccepts(f)) <=> (ENABLED EndAccepts(g))
    /\ \A id \in 1..MaxRequests :
         (ENABLED EndAcceptsFor(f, id)) <=> (ENABLED EndAcceptsFor(g, id))
    /\ \A cid \in CustomerIds :
         (ENABLED StartAcceptsAs(f, cid)) <=> (ENABLED StartAcceptsAs(g, cid))

(***************************************************************************)
(* The form actions against the lifecycle module.                          *)
(***************************************************************************)
WritesSubmission(r, kind) ==
  /\ req[r].kind = kind
  /\ req[r].pc = "createSubmission"
  /\ \E sb \in submissions' : sb.id = req[r].submissionId' /\ sb \notin submissions

\* C24: the start action stores a START submission only in states where
\* canStartChallenge is eligible for the request's shop and shopper, and the
\* end action stores an END submission only in states where
\* canEndChallenge is eligible for its shop and the participant's shopper.
C24_WritesOnlyWhenEligible ==
  [][\A r \in Reqs :
       /\ WritesSubmission(r, "start") =>
            \A res \in canStartChallenge(req[r].shop, req[r].customerId) : res.ok
       /\ WritesSubmission(r, "end") =>
            \A p \in participants : p.id = req[r].participantId =>
              \A res \in canEndChallenge(req[r].shop, p.customerId) : res.ok]_vars

(***************************************************************************)
(* Failing store writes.                                                   *)
(***************************************************************************)
\* Request r takes a step in which its store write throws: the store is
\* unreachable, or the row the write refers to is gone.
FailedWrite(r) ==
  /\ req'[r] # req[r]
  /\ req[r].pc \in {"createSubmission", "photos", "update"}
  /\ \/ outages' = outages + 1
     \/ req[r].pc = "createSubmission" /\ ~HasParticipant(req[r].participantId)
     \/ req[r].pc = "photos" /\ ~HasSubmission(req[r].submissionId)
     \/ req[r].pc = "update" /\ ~HasParticipant(req[r].participantId)

\* C25: a start or end request whose submission create, photo create or
\* participant update fails answers the generic failure, writes and undoes
\* nothing in that step, does not retry the write, and never writes the
\* participant afterwards (only the photo creates already issued still
\* run).
C25_WriteFailureIsGeneric ==
  /\ [][\A r \in Reqs : FailedWrite(r) =>
          /\ store' = store
          /\ ~req[r].failed =>
               response' = [kind |-> req[r].kind, status |-> 500, text |-> GenericFailure]
          /\ \/ req'[r] = IdleReq
             \/ /\ req'[r].pc = "photos" /\ req'[r].failed
                /\ req'[r].pending \subseteq req[r].pending
                /\ req'[r].pending # req[r].pending]_vars
  /\ [][\A r \in Reqs : (req[r].failed /\ req'[r] # req[r]) =>
          /\ participants' = participants
          /\ submissions' = submissions
          /\ req'[r] = IdleReq \/ (req'[r].pc = "photos" /\ req'[r].failed)]_vars

C25_Witness ==
  /\ response.status = 500
  /\ response.text = GenericFailure
  /\ \E p \in participants :
       /\ p.status = NOT_STARTED /\ p.startWeight = Null /\ p.startedAt = Null
       /\ \E sb \in StartSubmissionsOf(p.id) :
            /\ PhotosOf(sb.id) # {}
            /\ Cardinality(PhotosOf(sb.id)) < PhotoCount

(***************************************************************************)
(* Recovery after a start request stops between its submission write and   *)
(* its photo writes.  The shopper posts the start form until started and   *)
(* the end form afterwards; every request that is not stopped goes on.     *)
(***************************************************************************)
\* The server process stops while request r has written its START
\* submission and none of its photos.
Crash(r) ==
  /\ req[r].kind = "start"
  /\ req[r].pc = "photos"
  /\ req[r].pending = 1..PhotoCount
  /\ outages < MaxOutages
  /\ outages' = outages + 1
  /\ req' = [req EXCEPT ![r] = IdleReq]
  /\ response' = NoResponse
  /\ UNCHANGED <<now, store, issued, adminOps, lastCall>>

\* The shopper posts the start form again only while not started and
\* while no earlier post is still being served.
NotYetStarted ==
  /\ \A p \in participants : p.status = NOT_STARTED
  /\ \A r \in Reqs : req[r].pc = "idle"

ShopperStarts == \E r \in Reqs, f \in RepairForms : NotYetStarted /\ StartSubmit(r, f)
ShopperEnds == \E r \in Reqs, f \in RepairForms : EndSubmit(r, f)

RequestStep(r) ==
  \/ StartFindParticipant(r)
  \/ StartCreateParticipant(r)
  \/ StartCreateSubmission(r)
  \/ \E i \in 1..PhotoCount : StartCreatePhoto(r, i)
  \/ StartUpdateParticipant(r)
  \/ EndCreateSubmission(r)
  \/ \E i \in 1..PhotoCount : EndCreatePhoto(r, i)
  \/ EndUpdateParticipant(r)

NextRecover ==
  \/ ShopperStarts
  \/ ShopperEnds
  \/ \E r \in Reqs : RequestStep(r)
  \/ \E r \in Reqs : Crash(r)

SpecRecover ==
  /\ Init
  /\ [][NextRecover]_vars
  /\ WF_vars(ShopperStarts)
  /\ WF_vars(ShopperEnds)
  /\ \A r \in Reqs : WF_vars(RequestStep(r))

\* Participant pid is NOT_STARTED with a START submission that has no
\* photos and that no request is still working on.
Orphaned(pid) ==
  \E p \in participants :
    /\ p.id = pid
    /\ p.status = NOT_STARTED
    /\ \E sb \in StartSubmissionsOf(pid) :
         /\ PhotosOf(sb.id) = {}
         /\ \A r \in Reqs : req[r].submissionId # sb.id

HasStatus(pid, status) == \E p \in participants : p.id = pid /\ p.status = status

SetupShop == OldShop
AlreadyExists == "Challenge already exists"
CreatedSuccessfully == "Challenge created successfully"

\* The ids of the challenges the endpoint has created.
Seeded == IF lastCall.fn = "setup" THEN lastCall.seeded ELSE {}

\* loader up to its first await's answer: findFirst({shop, isActive: true})
SetupFind(r) ==
  /\ issued < MaxRequests
  /\ FreeSlot(r)
  /\ issued' = issued + 1
  /\ IF \E c \in challenges : c.shop = SetupShop /\ c.isActive
       THEN /\ response' = [kind |-> "setup", status |-> 200, text |-> AlreadyExists]
            /\ UNCHANGED req
       ELSE Continue(r, [IdleReq EXCEPT !.pc = "setupCreate", !.kind = "setup",
                                        !.shop = SetupShop])
  /\ UNCHANGED <<now, store, adminOps, outages, lastCall>>

\* loader after findFirst found nothing: challenge.create from today to
\* thirty days on; a throw is answered 500 with the error's message
SetupCreate(r) ==
  /\ req[r].pc = "setupCreate"
  /\ \/ /\ challenges' = challenges \cup
             {NewChallenge(nextId.challenge, SetupShop, now, now + SetupDays)}
        /\ nextId' = [nextId EXCEPT !.challenge = @ + 1]
        /\ lastCall' = [fn |-> "setup", seeded |-> Seeded \cup {nextId.challenge}]
        /\ Respond(r, 200, CreatedSuccessfully)
        /\ UNCHANGED outages
     \/ /\ WriteFails(TRUE)
        /\ Respond(r, 500, "error.message")
        /\ UNCHANGED <<challenges, nextId, lastCall>>
  /\ UNCHANGED <<now, participants, submissions, photos, issued, adminOps>>

NextSetup ==
  \/ Tick
  \/ \E r \in Reqs : SetupFind(r)
  \/ \E r \in Reqs : SetupCreate(r)
  \/ \E shop \in Shops, nameGiven \in BOOLEAN, s \in Dates, e \in Dates :
       CreateChallenge(shop, nameGiven, s, e)

SpecSetup == InitAdmin /\ [][NextSetup]_vars

\* C27: the setup endpoint has created at most one challenge, and a call
\* that reaches its create while an isActive challenge of the seeded shop
\* exists creates nothing and answers "Challenge already exists".
C27_SeedsAtMostOnce ==
  /\ [](Cardinality(Seeded) <= 1)
  /\ [][(\E c \in challenges : c.shop = SetupShop /\ c.isActive) =>
          /\ Seeded' = Seeded
          /\ (\E r \in Reqs : req[r].kind = "setup" /\ req'[r] # req[r]) =>
               response'.text = AlreadyExists]_vars

(***************************************************************************)
(* Tenant consistency.                                                     *)
(***************************************************************************)
\* C28: in every state, the states between the repair's updateMany calls
\* included, each participant carries the shop of its challenge, each
\* submission the shop of its participant and each photo the shop of its
\* submission.
C28_TenantConsistent ==
  /\ \A p \in participants :
       \A c \in challenges : c.id = p.challengeId => p.shop = c.shop
  /\ \A sb \in submissions :
       \A p \in participants : p.id = sb.participantId => sb.shop = p.shop
  /\ \A ph \in photos :
       \A sb \in submissions : sb.id = ph.submissionId => ph.shop = sb.shop

(***************************************************************************)
(* Tenant isolation of the admin routes.                                   *)
(***************************************************************************)
\* C29: a step in which an admin session of some shop updates or deletes a
\* challenge, whatever id it supplies, does so only to a challenge of that
\* shop, and removes participants only of that shop's challenges.
C29_AdminTenantIsolated ==
  [][\A sessionShop \in Shops, c \in challenges :
       (/\ c \notin challenges'
        /\ \/ DeleteChallenge(sessionShop, c.id)
           \/ \E s \in PureDates, e \in PureDates :
                UpdateChallenge(sessionShop, c.id, s, e))
         => c.shop = sessionShop]_vars

(***************************************************************************)
(* The completed participant's record.                                     *)
(***************************************************************************)
\* C30: under every interleaving of start and end requests, a COMPLETED
\* participant's startedAt is not later than its completedAt, its
\* startWeight is the weight of one of its START submissions and its
\* endWeight the weight of one of its END submissions.
C30_CompletedRecordCoherent ==
  \A p \in participants :
    p.status = COMPLETED =>
      /\ p.startedAt <= p.completedAt
      /\ \E sb \in StartSubmissionsOf(p.id) : sb.weight = p.startWeight
      /\ \E sb \in EndSubmissionsOf(p.id) : sb.weight = p.endWeight

====
